---- MODULE Spec2Model ----
\* The travel-planner chat component (Chat), its two search routes and its
\* persisted Memory, as a state machine.
EXTENDS Integers, Sequences, FiniteSets, TLC

VARIABLES memory, storage, messages, flights, hotels, tasks, turns, last, latest, rk

vars == <<memory, storage, messages, flights, hotels, tasks, turns, last, latest, rk>>

\* ---------------------------------------------------------------- bounds
\* user events (submit, persona change, selection, refresh, reload) per run
MaxEvents == 2
\* searches that may be pending at once
MaxTasks == 2
\* longest candidate list handed to the ranker in SpecRank
MaxLen == 3

\* ---------------------------------------------------------------- values
\* JavaScript's undefined, and an absent object key (every read of the
\* program, and JSON.stringify, treats the two alike)
Undef == "undefined"

\* JSON's null
Null == "null"

Personas == {"Rich", "Business"}

\* a ?? b
Coalesce(a, b) == IF a # Undef THEN a ELSE b

\* String.prototype.toUpperCase on the strings of the model
ToUpperCase(s) ==
    CASE s = "lax" -> "LAX"
      [] s = "Lax" -> "LAX"
      [] s = "nyc" -> "NYC"
      [] OTHER -> s

\* String.prototype.toLowerCase on the fare-class strings of the model
ToLowerCase(s) ==
    CASE s = "First" -> "first"
      [] s = "BUSINESS" -> "business"
      [] s = "Business" -> "business"
      [] s = "Economy" -> "economy"
      [] s = "Premium" -> "premium"
      [] OTHER -> s

\* ---------------------------------------------------------------- Memory
NoQuery == [present |-> FALSE, from |-> Undef, to |-> Undef, date |-> Undef]

DefaultMemory ==
    [persona |-> "Business", lastQuery |-> NoQuery, chosenFlightId |-> Undef,
     hotelRequired |-> Undef, extra |-> <<>>]

\* JSON.stringify(memory): the members in order, undefined members omitted.
\* The text is a sequence of <<key, value>> members; a nested object opens
\* with <<key, "{">> and closes with <<"}", "">>.
Member(k, v) == IF v = Undef THEN <<>> ELSE << <<k, v>> >>

StringifyDropsQuery(m) ==
    [kind |-> "object",
     body |-> Member("persona", m.persona)
              \o Member("chosenFlightId", m.chosenFlightId)
              \o Member("hotelRequired", m.hotelRequired)
              \o m.extra]

JSONstringify(m) ==
    [kind |-> "object",
     body |-> Member("persona", m.persona)
              \o (IF m.lastQuery.present
                  THEN << <<"lastQuery", "{">> >>
                       \o Member("from", m.lastQuery.from)
                       \o Member("to", m.lastQuery.to)
                       \o Member("date", m.lastQuery.date)
                       \o << <<"}", "">> >>
                  ELSE <<>>)
              \o Member("chosenFlightId", m.chosenFlightId)
              \o Member("hotelRequired", m.hotelRequired)
              \o m.extra]

\* { persona: 'Business', ...parsed } for a parsed object: the members of
\* body from position i on, spread over acc; inQ inside the lastQuery object
RECURSIVE SpreadMembers(_, _, _, _)
SpreadMembers(body, i, inQ, acc) ==
    IF i > Len(body) THEN acc
    ELSE LET k == body[i][1]
             v == body[i][2]
         IN IF inQ
            THEN IF k = "}" THEN SpreadMembers(body, i + 1, FALSE, acc)
                 ELSE SpreadMembers(body, i + 1, TRUE,
                          [acc EXCEPT !.lastQuery[k] = v])
            ELSE CASE k = "lastQuery" ->
                        SpreadMembers(body, i + 1, TRUE,
                            [acc EXCEPT !.lastQuery =
                                [NoQuery EXCEPT !.present = TRUE]])
                   [] k \in {"persona", "chosenFlightId", "hotelRequired"} ->
                        SpreadMembers(body, i + 1, FALSE, [acc EXCEPT ![k] = v])
                   [] OTHER ->
                        SpreadMembers(body, i + 1, FALSE,
                            [acc EXCEPT !.extra = Append(@, body[i])])

LoadIgnoresStored(blob) == DefaultMemory

\* loadMemory over the stored item: "none" no item, "empty" the empty
\* string, "garbage" text JSON.parse rejects, "null"/"number" JSON values
\* whose spread adds nothing, "string" a JSON string (its spread adds one
\* member per character, given in body), "object" a JSON object
loadMemory(blob) ==
    CASE blob.kind \in {"none", "empty"} -> DefaultMemory
      [] blob.kind = "garbage" -> DefaultMemory
      [] blob.kind \in {"null", "number"} -> DefaultMemory
      [] OTHER -> SpreadMembers(blob.body, 1, FALSE, DefaultMemory)

\* what the store may hold when the component mounts
InitialBlobs ==
    { [kind |-> "none", body |-> <<>>],
      [kind |-> "garbage", body |-> <<>>],
      [kind |-> "null", body |-> <<>>],
      [kind |-> "string", body |-> << <<"0", "h">>, <<"1", "i">> >>],
      [kind |-> "object",
       body |-> << <<"persona", "Rich">>, <<"lastQuery", "{">>,
                   <<"to", "LAX">>, <<"}", "">>, <<"hotelRequired", "true">> >>],
      [kind |-> "object", body |-> << <<"lastQuery", "{">>, <<"}", "">> >>],
      [kind |-> "object", body |-> << <<"persona", Null>> >>] }

\* ---------------------------------------------------------------- utterances
\* An utterance is the trimmed input split at white space. A token's
\* properties under the patterns of handleSubmit:
\* the token starts with three letters: those letters, upper-cased
Alpha3(w) ==
    CASE w \in {"NYC", "nyc"} -> "NYC"
      [] w \in {"LAX", "lax"} -> "LAX"
      [] w = "flights" -> "FLI"
      [] w = "from" -> "FRO"
      [] w = "need" -> "NEE"
      [] w = "hotel" -> "HOT"
      [] w = "overnight" -> "OVE"
      [] w = "hello" -> "HEL"
      [] OTHER -> Undef

\* the token is three letters after a word boundary (what may precede "->")
ThreeLetters(w) == w \in {"NYC", "nyc", "LAX", "lax"}

\* the token ends with "from" / with "to", case-insensitively
EndsWithFrom(w) == w = "from"
EndsWithTo(w) == w = "to"

\* the first YYYY-MM-DD inside the token
DateIn(w) == IF w \in {"2025-11-10", "2025-11-11"} THEN w ELSE Undef

\* the token contains hotel, stay, night or overnight
HotelWord(w) == w \in {"hotel", "overnight", "stay", "tonight"}

Utterances ==
    { <<"flights", "from", "NYC", "to", "LAX", "on", "2025-11-10">>,
      <<"need", "hotel">>,
      <<"LAX", "->", "nyc">>,
      <<"to", "lax", "overnight">>,
      <<"hello">>,
      <<"on", "2025-11-11">>,
      <<>> }

Min(S) == CHOOSE x \in S : \A y \in S : x <= y

\* the capture of the leftmost match among the positions in S
FirstAt(S, q, off) == IF S = {} THEN Undef ELSE Alpha3(q[Min(S) + off])

\* q.match(/from\s+([A-Za-z]{3})/i)?.[1] || q.match(/\b([A-Za-z]{3})\s*->/i)?.[1]
ExtractFrom(q) ==
    LET word == {i \in 1..(Len(q) - 1) : EndsWithFrom(q[i]) /\ Alpha3(q[i + 1]) # Undef}
        arrow == {i \in 1..(Len(q) - 1) : ThreeLetters(q[i]) /\ q[i + 1] = "->"}
    IN IF word # {} THEN FirstAt(word, q, 1) ELSE FirstAt(arrow, q, 0)

\* q.match(/to\s+([A-Za-z]{3})/i)?.[1] || q.match(/->\s*([A-Za-z]{3})/i)?.[1]
ExtractTo(q) ==
    LET word == {i \in 1..(Len(q) - 1) : EndsWithTo(q[i]) /\ Alpha3(q[i + 1]) # Undef}
        arrow == {i \in 1..(Len(q) - 1) : q[i] = "->" /\ Alpha3(q[i + 1]) # Undef}
    IN IF word # {} THEN FirstAt(word, q, 1) ELSE FirstAt(arrow, q, 1)

\* q.match(/(\d{4}-\d{2}-\d{2})/)?.[1]
ExtractDate(q) ==
    LET hit == {i \in 1..Len(q) : DateIn(q[i]) # Undef}
    IN IF hit = {} THEN Undef ELSE DateIn(q[Min(hit)])

\* /hotel|stay|night|overnight/i.test(q)
MentionsHotel(q) == \E i \in 1..Len(q) : HotelWord(q[i])

\* ---------------------------------------------------------------- data
FlightData ==
    << [id |-> "F1", from |-> "NYC", to |-> "LAX", date |-> "2025-11-10",
        class |-> "First", price |-> 500, overnight |-> FALSE],
       [id |-> "F2", from |-> "NYC", to |-> "LAX", date |-> "2025-11-10",
        class |-> "business", price |-> 300, overnight |-> TRUE],
       [id |-> "F3", from |-> "NYC", to |-> "LAX", date |-> "2025-11-10",
        class |-> "economy", price |-> 100, overnight |-> FALSE],
       [id |-> "F4", from |-> "LAX", to |-> "NYC", date |-> "2025-11-11",
        class |-> "Business", price |-> 300, overnight |-> TRUE] >>

HotelData ==
    << [id |-> "H1", city |-> "LAX", stars |-> 4, price |-> 200],
       [id |-> "H2", city |-> "Lax", stars |-> 5, price |-> 400],
       [id |-> "H3", city |-> "LAX", stars |-> 3, price |-> 100],
       [id |-> "H4", city |-> "NYC", stars |-> 4, price |-> 250] >>

\* ---------------------------------------------------------------- routes
FlightParamsNoDate(lq) ==
    [from |-> IF lq.from = "" THEN Undef ELSE lq.from,
     to |-> IF lq.to = "" THEN Undef ELSE lq.to,
     date |-> Undef]

\* the query string of searchFlights: the entries with a truthy value
FlightParams(lq) ==
    [from |-> IF lq.from = "" THEN Undef ELSE lq.from,
     to |-> IF lq.to = "" THEN Undef ELSE lq.to,
     date |-> IF lq.date = "" THEN Undef ELSE lq.date]

\* GET /api/flights
GETflights(params) ==
    LET from == IF params.from = Undef THEN Undef ELSE ToUpperCase(params.from)
        to == IF params.to = Undef THEN Undef ELSE ToUpperCase(params.to)
        date == params.date
        Keep(f) == /\ (from # Undef => f.from = from)
                   /\ (to # Undef => f.to = to)
                   /\ (date # Undef => f.date = date)
    IN SelectSeq(FlightData, Keep)

GEThotelsUnfiltered(city, minStars) ==
    LET Keep(h) == city # "" => ToUpperCase(h.city) = ToUpperCase(city)
    IN SelectSeq(HotelData, Keep)

\* GET /api/hotels
GEThotels(city, minStars) ==
    LET Keep(h) == /\ (city # "" => ToUpperCase(h.city) = ToUpperCase(city))
                   /\ (minStars # 0 => h.stars >= minStars)
    IN SelectSeq(HotelData, Keep)

\* ---------------------------------------------------------------- ranking
ScoreIgnoresOvernight(f, persona) ==
    LET cls == ToLowerCase(f.class)
    IN IF persona = "Rich"
       THEN (IF cls = "first" THEN 3 ELSE 0) + (IF cls = "business" THEN 2 ELSE 0)
       ELSE (IF cls = "business" THEN 3 ELSE 0) + (IF cls = "economy" THEN 1 ELSE 0)

\* personaScore, with memory.persona of the render that made the closure
personaScore(f, persona) ==
    LET isRich == persona = "Rich"
        cls == ToLowerCase(f.class)
    IN IF isRich
       THEN (IF cls = "first" THEN 3 ELSE 0)
            + (IF cls = "business" THEN 2 ELSE 0)
            + (IF f.overnight THEN -1 ELSE 0)
       ELSE (IF cls = "business" THEN 3 ELSE 0)
            + (IF cls = "economy" THEN 1 ELSE 0)
            + (IF ~f.overnight THEN 1 ELSE 0)

CompareAscendingScore(a, b, persona) ==
    LET d == personaScore(a, persona) - personaScore(b, persona)
    IN IF d # 0 THEN d ELSE a.price - b.price

\* the comparator of searchFlights: personaScore(b) - personaScore(a) || a.price - b.price
FlightCompare(a, b, persona) ==
    LET d == personaScore(b, persona) - personaScore(a, persona)
    IN IF d # 0 THEN d ELSE a.price - b.price

\* the comparator of searchHotels: b.stars - a.stars || a.price - b.price
HotelCompare(a, b) ==
    LET d == b.stars - a.stars
    IN IF d # 0 THEN d ELSE a.price - b.price

\* x put into the sorted list before the first element it must precede
InsertAt(sorted, x, before) ==
    LET k == IF before = {} THEN Len(sorted) + 1 ELSE Min(before)
    IN SubSeq(sorted, 1, k - 1) \o <<x>> \o SubSeq(sorted, k, Len(sorted))

\* Array.prototype.sort (stable) with FlightCompare: the first n elements sorted
RECURSIVE SortFlightsUpTo(_, _, _)
SortFlightsUpTo(list, n, persona) ==
    IF n = 0 THEN <<>>
    ELSE LET sorted == SortFlightsUpTo(list, n - 1, persona)
             x == list[n]
         IN InsertAt(sorted, x,
                {i \in 1..Len(sorted) : FlightCompare(x, sorted[i], persona) < 0})

sortFlights(list, persona) == SortFlightsUpTo(list, Len(list), persona)

\* Array.prototype.sort (stable) with HotelCompare
RECURSIVE SortHotelsUpTo(_, _)
SortHotelsUpTo(list, n) ==
    IF n = 0 THEN <<>>
    ELSE LET sorted == SortHotelsUpTo(list, n - 1)
             x == list[n]
         IN InsertAt(sorted, x,
                {i \in 1..Len(sorted) : HotelCompare(x, sorted[i]) < 0})

sortHotels(list) == SortHotelsUpTo(list, Len(list))

\* const minStars = memory.persona === 'Rich' ? 5 : 4
minStars(persona) == IF persona = "Rich" THEN 5 ELSE 4

\* ---------------------------------------------------------------- component state
\* memory, flights, hotels, messages: the useState cells of Chat.
\* storage: the localStorage item. tasks: the fetches awaited, oldest
\* first, each with the closure of the render that issued it. turns: user
\* events so far. last: the step taken last. latest: the flight search
\* issued last on this page (n counts them) and whether its response has
\* been taken. rk: the ranker's workbench (used by SpecRank only).

NoParams == [from |-> Undef, to |-> Undef, date |-> Undef]

RkIdle == [pc |-> "idle", persona |-> "Business", input |-> <<>>,
           output |-> <<>>, scores |-> <<>>, again |-> <<>>]

Step(op, id, q, persona) == [op |-> op, id |-> id, q |-> q, persona |-> persona]

\* a pending searchFlights call
FlightTask(kind, persona, cflights, q, lq) ==
    [kind |-> kind, phase |-> "flights", persona |-> persona, cflights |-> cflights,
     q |-> q, lq |-> lq, params |-> FlightParams(lq), city |-> "", minStars |-> 0,
     n |-> latest.n + 1]

\* a pending searchHotels call
HotelTask(kind, persona, city) ==
    [kind |-> kind, phase |-> "hotels", persona |-> persona, cflights |-> <<>>,
     q |-> <<>>, lq |-> NoQuery, params |-> NoParams, city |-> city,
     minStars |-> minStars(persona), n |-> 0]

NoSearch == [n |-> 0, params |-> NoParams, persona |-> Undef, arrived |-> FALSE]

\* searchFlights was called: the call becomes the latest
Issued(t) == [n |-> t.n, params |-> t.params, persona |-> t.persona, arrived |-> FALSE]

Remove(seq, i) == SubSeq(seq, 1, i - 1) \o SubSeq(seq, i + 1, Len(seq))

Agent(kind, arg) == [role |-> "agent", kind |-> kind, arg |-> arg]
User == [role |-> "user", kind |-> "utterance", arg |-> Undef]

SaveSkipped == UNCHANGED storage

\* useEffect(() => { saveMemory(memory); }, [memory])
saveMemory == storage' = JSONstringify(memory')

\* useState(() => loadMemory()) and the first run of the save effect
Mount(blob) ==
    /\ memory' = loadMemory(blob)
    /\ saveMemory
    /\ messages' = <<>>
    /\ flights' = <<>>
    /\ hotels' = <<>>
    /\ tasks' = <<>>
    /\ latest' = NoSearch

Init ==
    /\ \E blob \in InitialBlobs :
          /\ memory = loadMemory(blob)
          /\ storage = JSONstringify(memory)
          /\ last = Step("mount", blob.kind, <<>>, Undef)
    /\ messages = <<>>
    /\ flights = <<>>
    /\ hotels = <<>>
    /\ tasks = <<>>
    /\ turns = 0
    /\ latest = NoSearch
    /\ rk = RkIdle

\* the page is loaded again: a new Chat over the stored item
Reload ==
    /\ turns < MaxEvents
    /\ Mount(storage)
    /\ turns' = turns + 1
    /\ last' = Step("reload", Undef, <<>>, Undef)
    /\ UNCHANGED rk

MergeKeepsOnlyNew(mem, from, to, date) ==
    [mem EXCEPT !.lastQuery =
        [present |-> TRUE, from |-> from, to |-> to, date |-> date]]

MergeDropsMemory(mem, from, to, date) ==
    [DefaultMemory EXCEPT
        !.persona = mem.persona,
        !.lastQuery = [present |-> TRUE,
                       from |-> Coalesce(from, mem.lastQuery.from),
                       to |-> Coalesce(to, mem.lastQuery.to),
                       date |-> Coalesce(date, mem.lastQuery.date)]]

\* newMem of handleSubmit
MergeQuery(mem, from, to, date) ==
    [mem EXCEPT !.lastQuery =
        [present |-> TRUE,
         from |-> Coalesce(from, mem.lastQuery.from),
         to |-> Coalesce(to, mem.lastQuery.to),
         date |-> Coalesce(date, mem.lastQuery.date)]]

\* /hotel|stay|night|overnight/i.test(q) || (flights[0]?.overnight ?? false)
needsHotel(q, cflights) ==
    MentionsHotel(q) \/ (Len(cflights) > 0 /\ cflights[1].overnight)

\* (newMem.lastQuery?.to ?? flights[0]?.to) || ''
arrivalCity(lq, cflights) ==
    LET c == Coalesce(lq.to, IF Len(cflights) > 0 THEN cflights[1].to ELSE Undef)
    IN IF c = Undef THEN "" ELSE c

\* the hotel part of handleSubmit, run with the closure (q, lq, cflights,
\* persona) over the current memory mem, the transcript msgs and the other
\* pending calls rest
HotelPart(q, lq, cflights, persona, mem, msgs, rest) ==
    IF needsHotel(q, cflights) /\ arrivalCity(lq, cflights) # ""
    THEN /\ Len(rest) < MaxTasks
         /\ memory' = [mem EXCEPT !.hotelRequired = "true"]
         /\ tasks' = Append(rest, [HotelTask("submit", persona, arrivalCity(lq, cflights))
                                     EXCEPT !.q = q, !.lq = lq, !.cflights = cflights])
         /\ messages' = msgs
    ELSE /\ memory' = mem
         /\ tasks' = rest
         /\ messages' = msgs

\* handleSubmit up to its first await
HandleSubmit(u) ==
    /\ turns < MaxEvents
    /\ turns' = turns + 1
    /\ last' = Step("handleSubmit", Undef, u, memory.persona)
    /\ UNCHANGED <<hotels, flights, rk>>
    /\ IF u = <<>>
       THEN UNCHANGED <<memory, storage, messages, tasks, latest>>
       ELSE LET from == ExtractFrom(u)
                to == ExtractTo(u)
                date == ExtractDate(u)
                newMem == MergeQuery(memory, from, to, date)
            IN /\ IF from # Undef \/ to # Undef \/ date # Undef \/ Len(flights) = 0
                  THEN /\ Len(tasks) < MaxTasks
                       /\ memory' = newMem
                       /\ messages' = Append(messages, User)
                       /\ tasks' = Append(tasks,
                              FlightTask("submit", memory.persona, flights, u,
                                         newMem.lastQuery))
                       /\ latest' = Issued(tasks'[Len(tasks')])
                  ELSE /\ HotelPart(u, newMem.lastQuery, flights, memory.persona,
                                    newMem, Append(messages, User), tasks)
                       /\ UNCHANGED latest
               /\ saveMemory

\* a flight search's response arrives: the rest of searchFlights, and for a
\* submit the rest of handleSubmit up to its next await
FlightsArrive(i) ==
    /\ i \in 1..Len(tasks)
    /\ tasks[i].phase = "flights"
    /\ LET t == tasks[i]
       IN /\ flights' = sortFlights(GETflights(t.params), t.persona)
          /\ last' = Step("flightsArrive", t.kind, t.q, t.persona)
          /\ latest' = IF t.n = latest.n THEN [latest EXCEPT !.arrived = TRUE] ELSE latest
          /\ IF t.kind = "submit"
             THEN HotelPart(t.q, t.lq, t.cflights, t.persona, memory,
                            Append(messages, Agent("found", Undef)), Remove(tasks, i))
             ELSE /\ tasks' = Remove(tasks, i)
                  /\ UNCHANGED <<memory, messages>>
    /\ saveMemory
    /\ UNCHANGED <<hotels, turns, rk>>

\* a hotel search's response arrives: the rest of searchHotels, and for a
\* submit the rest of handleSubmit
HotelsArrive(i) ==
    /\ i \in 1..Len(tasks)
    /\ tasks[i].phase = "hotels"
    /\ LET t == tasks[i]
       IN /\ hotels' = sortHotels(GEThotels(t.city, t.minStars))
          /\ last' = Step("hotelsArrive", Undef, t.q, t.persona)
          /\ messages' = IF t.kind = "submit"
                         THEN Append(messages, Agent("hotelRequired", t.city))
                         ELSE messages
          /\ tasks' = Remove(tasks, i)
    /\ UNCHANGED <<memory, storage, flights, turns, latest, rk>>

\* fetch or res.json() rejects, or the body has no list: the awaiting
\* function throws, and with it the handler that awaited it
SearchFails(i) ==
    /\ i \in 1..Len(tasks)
    /\ tasks' = Remove(tasks, i)
    /\ last' = Step("searchFails", tasks[i].phase, tasks[i].q, tasks[i].persona)
    /\ UNCHANGED <<memory, storage, messages, flights, hotels, turns, latest, rk>>

SetPersonaOnly(mem, p) == [DefaultMemory EXCEPT !.persona = p]

\* m => ({ ...m, persona: p })
SetPersona(mem, p) == [mem EXCEPT !.persona = p]

choosePersona(p) ==
    /\ turns < MaxEvents
    /\ turns' = turns + 1
    /\ memory' = SetPersona(memory, p)
    /\ saveMemory
    /\ messages' = Append(messages, Agent("persona", p))
    /\ last' = Step("choosePersona", Undef, <<>>, p)
    /\ UNCHANGED <<flights, hotels, tasks, latest, rk>>

FindOrFirst(list, id) ==
    LET hit == {i \in 1..Len(list) : list[i].id = id}
    IN IF hit = {} THEN (IF Len(list) > 0 THEN 1 ELSE 0) ELSE Min(hit)

\* flights.find(x => x.id === id): the position of the match, 0 for none
Find(list, id) ==
    LET hit == {i \in 1..Len(list) : list[i].id = id}
    IN IF hit = {} THEN 0 ELSE Min(hit)

ChooseKeepsQuery(mem, f) == [mem EXCEPT !.chosenFlightId = f.id]

\* m => ({ ...m, chosenFlightId: id, lastQuery: { from: f.from, to: f.to, date: f.date } })
ChooseFlight(mem, f) ==
    [mem EXCEPT !.chosenFlightId = f.id,
                !.lastQuery = [present |-> TRUE, from |-> f.from,
                               to |-> f.to, date |-> f.date]]

NeverOvernight(f) == FALSE

\* if (f.overnight)
isOvernight(f) == f.overnight

selectFlight(id) ==
    /\ turns < MaxEvents
    /\ turns' = turns + 1
    /\ last' = Step("selectFlight", id, <<>>, memory.persona)
    /\ UNCHANGED <<flights, hotels, latest, rk>>
    /\ IF Find(flights, id) = 0
       THEN UNCHANGED <<memory, storage, messages, tasks>>
       ELSE LET f == flights[Find(flights, id)]
                chosen == ChooseFlight(memory, f)
            IN /\ IF isOvernight(f)
                  THEN /\ Len(tasks) < MaxTasks
                       /\ memory' = [chosen EXCEPT !.hotelRequired = "true"]
                       /\ tasks' = Append(tasks, HotelTask("select", memory.persona, f.to))
                       /\ messages' = messages \o <<Agent("selected", id),
                                                    Agent("overnight", Undef)>>
                  ELSE /\ memory' = chosen
                       /\ tasks' = tasks
                       /\ messages' = Append(messages, Agent("selected", id))
               /\ saveMemory

\* the Refresh Flights button: memory.lastQuery && searchFlights(memory.lastQuery)
RefreshFlights ==
    /\ turns < MaxEvents
    /\ turns' = turns + 1
    /\ last' = Step("refresh", Undef, <<>>, memory.persona)
    /\ IF memory.lastQuery.present
       THEN /\ Len(tasks) < MaxTasks
            /\ tasks' = Append(tasks,
                   FlightTask("refresh", memory.persona, flights, <<>>, memory.lastQuery))
            /\ latest' = Issued(tasks'[Len(tasks')])
       ELSE UNCHANGED <<tasks, latest>>
    /\ UNCHANGED <<memory, storage, messages, flights, hotels, rk>>

\* the ids the flight list offers for selection
HeldIds == {flights[i].id : i \in 1..Len(flights)}

Next ==
    \/ \E u \in Utterances : HandleSubmit(u)
    \/ \E i \in 1..MaxTasks : FlightsArrive(i)
    \/ \E i \in 1..MaxTasks : HotelsArrive(i)
    \/ \E i \in 1..MaxTasks : SearchFails(i)
    \/ \E p \in Personas : choosePersona(p)
    \/ \E id \in HeldIds \cup {"F9"} : selectFlight(id)
    \/ RefreshFlights
    \/ Reload

Spec == Init /\ [][Next]_vars

\* ---------------------------------------------------------------- the ranker alone
\* searchFlights' ranking applied to every short candidate list, under
\* both personas; the component itself stays as mounted over an empty store
RankClasses == {"First", "business", "economy", "Premium"}
RankPrices == {100, 300}
RankIdOf == <<"F1", "F2", "F3", "F4", "F5", "F6">>

Candidates ==
    UNION { [1..n -> RankClasses \X RankPrices \X BOOLEAN] : n \in 0..MaxLen }

AsFlights(c) ==
    [i \in 1..Len(c) |->
        [id |-> RankIdOf[i], from |-> "NYC", to |-> "LAX", date |-> "2025-11-10",
         class |-> c[i][1], price |-> c[i][2], overnight |-> c[i][3]]]

InitRank ==
    /\ memory = DefaultMemory
    /\ storage = JSONstringify(DefaultMemory)
    /\ messages = <<>>
    /\ flights = <<>>
    /\ hotels = <<>>
    /\ tasks = <<>>
    /\ turns = 0
    /\ last = Step("mount", "none", <<>>, Undef)
    /\ latest = NoSearch
    /\ \E p \in Personas, c \in Candidates :
          rk = [RkIdle EXCEPT !.pc = "ready", !.persona = p, !.input = AsFlights(c)]

\* list.sort(...) of searchFlights over the candidates
RankList ==
    /\ rk.pc = "ready"
    /\ LET out == sortFlights(rk.input, rk.persona)
       IN rk' = [rk EXCEPT !.pc = "ranked", !.output = out,
                           !.scores = [i \in 1..Len(out) |-> personaScore(out[i], rk.persona)]]
    /\ UNCHANGED <<memory, storage, messages, flights, hotels, tasks, turns, last, latest>>

\* the same sort over the list it produced
RerankList ==
    /\ rk.pc = "ranked"
    /\ rk' = [rk EXCEPT !.pc = "reranked", !.again = sortFlights(rk.output, rk.persona)]
    /\ UNCHANGED <<memory, storage, messages, flights, hotels, tasks, turns, last, latest>>

NextRank == RankList \/ RerankList

SpecRank == InitRank /\ [][NextRank]_vars

\* ---------------------------------------------------------------- properties
\* the flight a selection step found in the list held before it
Picked == flights[Find(flights, last'.id)]

\* C1: the merge of an utterance turn gives each of lastQuery's from, to
\* and date the value extracted from the utterance when there is one and
\* the value Memory held before otherwise, so no known value becomes absent.
StickyMerge ==
    [][(last'.op = "handleSubmit" /\ last'.q # <<>>) =>
          LET q == last'.q
          IN /\ memory'.lastQuery.from =
                   (IF ExtractFrom(q) # Undef THEN ExtractFrom(q) ELSE memory.lastQuery.from)
             /\ memory'.lastQuery.to =
                   (IF ExtractTo(q) # Undef THEN ExtractTo(q) ELSE memory.lastQuery.to)
             /\ memory'.lastQuery.date =
                   (IF ExtractDate(q) # Undef THEN ExtractDate(q) ELSE memory.lastQuery.date)
             /\ \A k \in {"from", "to", "date"} :
                   memory.lastQuery[k] # Undef => memory'.lastQuery[k] # Undef]_vars

\* an utterance with a date and no destination met a Memory that knew the
\* destination: both are in lastQuery afterwards
StickyMergeSeen ==
    /\ last.op = "handleSubmit"
    /\ last.q = <<"on", "2025-11-11">>
    /\ memory.lastQuery.to = "LAX"
    /\ memory.lastQuery.date = "2025-11-11"
    /\ memory.lastQuery.from = Undef

\* C2: once Memory.hotelRequired is true, no step of any interleaving of
\* turns and search completions makes it anything else.
HotelRequiredStays ==
    [][memory.hotelRequired = "true" => memory'.hotelRequired = "true"]_vars

\* a submit that went straight to its flight search (so did not set the
\* flag itself) left a flag set earlier in place
HotelRequiredKept ==
    /\ last.op = "handleSubmit"
    /\ last.q # <<>>
    /\ ~MentionsHotel(last.q)
    /\ Len(tasks) > 0
    /\ tasks[Len(tasks)].phase = "flights"
    /\ memory.hotelRequired = "true"

\* where x stood among the candidates
PlaceIn(list, x) == CHOOSE i \in 1..Len(list) : list[i].id = x.id

\* C3: the ranked list is a permutation of the candidates in descending
\* persona score, equal scores in ascending price, equal score and price
\* in candidate order; ranking the ranked list again changes nothing.
RankedStableOrder ==
    rk.pc \in {"ranked", "reranked"} =>
       /\ Len(rk.output) = Len(rk.input)
       /\ \A i \in 1..Len(rk.input) : \E j \in 1..Len(rk.output) : rk.output[j] = rk.input[i]
       /\ \A i, j \in 1..Len(rk.output) :
             i < j =>
                LET a == rk.output[i]
                    b == rk.output[j]
                    sa == personaScore(a, rk.persona)
                    sb == personaScore(b, rk.persona)
                IN \/ sa > sb
                   \/ sa = sb /\ a.price < b.price
                   \/ sa = sb /\ a.price = b.price
                        /\ PlaceIn(rk.input, a) < PlaceIn(rk.input, b)
       /\ (rk.pc = "reranked" => rk.again = rk.output)

\* three candidates were reordered: the cheapest came last, and two with
\* equal score and price kept their order
RankedSeen ==
    /\ rk.pc = "reranked"
    /\ Len(rk.output) = 3
    /\ rk.output # rk.input
    /\ rk.output[1].id = "F2"
    /\ rk.output[2].id = "F3"
    /\ rk.output[1].price = rk.output[2].price
    /\ personaScore(rk.output[1], rk.persona) = personaScore(rk.output[2], rk.persona)
    /\ rk.output[3].price < rk.output[1].price

\* the scoring table
IsFirst(c) == c \in {"first", "First"}
IsBusiness(c) == c \in {"business", "Business", "BUSINESS"}
IsEconomy(c) == c \in {"economy", "Economy"}

TableScore(f, persona) ==
    IF persona = "Rich"
    THEN (CASE IsFirst(f.class) -> 3 [] IsBusiness(f.class) -> 2 [] OTHER -> 0)
         - (IF f.overnight THEN 1 ELSE 0)
    ELSE (CASE IsBusiness(f.class) -> 3 [] IsEconomy(f.class) -> 1 [] OTHER -> 0)
         + (IF f.overnight THEN 0 ELSE 1)

\* C4: every score the ranker computed is the table's; for Rich first
\* class is never below business class of the same overnight status, for
\* Business business class never below economy of the same status.
ScoreMatchesTable ==
    rk.pc \in {"ranked", "reranked"} =>
       /\ \A i \in 1..Len(rk.output) :
             rk.scores[i] = TableScore(rk.output[i], rk.persona)
       /\ \A i, j \in 1..Len(rk.output) :
             rk.output[i].overnight = rk.output[j].overnight =>
                /\ (rk.persona = "Rich" /\ IsFirst(rk.output[i].class)
                      /\ IsBusiness(rk.output[j].class)) => rk.scores[i] >= rk.scores[j]
                /\ (rk.persona = "Business" /\ IsBusiness(rk.output[i].class)
                      /\ IsEconomy(rk.output[j].class)) => rk.scores[i] >= rk.scores[j]

\* Rich scored an overnight first-class, an overnight business-class and
\* an overnight unrecognized-class flight: 2, 1 and -1
ScoreSeen ==
    /\ rk.pc = "ranked"
    /\ rk.persona = "Rich"
    /\ Len(rk.output) = 3
    /\ \A i \in 1..3 : rk.output[i].overnight
    /\ rk.output[1].class = "First" /\ rk.scores[1] = 2
    /\ rk.output[2].class = "business" /\ rk.scores[2] = 1
    /\ rk.output[3].class = "Premium" /\ rk.scores[3] = -1

SelectionOverwrites ==
    [][(last'.op = "selectFlight" /\ Find(flights, last'.id) # 0) =>
          /\ memory'.chosenFlightId = last'.id
          /\ memory'.lastQuery = [present |-> TRUE, from |-> Picked.from,
                                  to |-> Picked.to, date |-> Picked.date]]_vars

\* F4 was selected out of the list of a search that knew only the date
SelectionSeen ==
    /\ last.op = "selectFlight"
    /\ last.id = "F4"
    /\ memory.chosenFlightId = "F4"
    /\ memory.lastQuery = [present |-> TRUE, from |-> "LAX", to |-> "NYC",
                           date |-> "2025-11-11"]

\* C7: selecting a held overnight flight sets hotelRequired and issues, in
\* the same step, a hotel search for the flight's destination; selecting a
\* held flight that is not overnight issues no search.
OvernightSelectionSearches ==
    [][(last'.op = "selectFlight" /\ Find(flights, last'.id) # 0) =>
          IF Picked.overnight
          THEN /\ memory'.hotelRequired = "true"
               /\ Len(tasks') = Len(tasks) + 1
               /\ SubSeq(tasks', 1, Len(tasks)) = tasks
               /\ tasks'[Len(tasks')].phase = "hotels"
               /\ tasks'[Len(tasks')].city = Picked.to
          ELSE tasks' = tasks]_vars

\* the overnight F2 was selected and the hotel search for LAX is pending
OvernightSelectionSeen ==
    /\ last.op = "selectFlight"
    /\ last.id = "F2"
    /\ memory.hotelRequired = "true"
    /\ Len(tasks) > 0
    /\ tasks[Len(tasks)].phase = "hotels"
    /\ tasks[Len(tasks)].kind = "select"
    /\ tasks[Len(tasks)].city = "LAX"

\* C8: selecting an id that no held flight has changes neither Memory nor
\* the transcript nor the flight and hotel lists, and issues no search.
UnknownSelectionIsNoop ==
    [][(last'.op = "selectFlight" /\ \A i \in 1..Len(flights) : flights[i].id # last'.id) =>
          UNCHANGED <<memory, storage, messages, flights, hotels, tasks>>]_vars

\* an id that is not in a non-empty list was selected
UnknownSelectionSeen ==
    /\ last.op = "selectFlight"
    /\ last.id = "F9"
    /\ Len(flights) > 0
    /\ memory.chosenFlightId = Undef

\* C9: a persona change sets Memory.persona, appends one agent message
\* and changes nothing else of Memory, no list and no pending search.
PersonaChangeFrame ==
    [][last'.op = "choosePersona" =>
          /\ memory'.persona = last'.persona
          /\ \A k \in {"lastQuery", "chosenFlightId", "hotelRequired", "extra"} :
                memory'[k] = memory[k]
          /\ messages' = Append(messages, Agent("persona", last'.persona))
          /\ UNCHANGED <<flights, hotels, tasks>>]_vars

\* the persona became Rich in a Memory that had a query and the hotel flag
PersonaChangeSeen ==
    /\ last.op = "choosePersona"
    /\ memory.persona = "Rich"
    /\ memory.lastQuery.to = "LAX"
    /\ memory.hotelRequired = "true"
    /\ Len(messages) > 1
    /\ messages[Len(messages)] = Agent("persona", "Rich")

\* C10: what loadMemory makes of the saved Memory is that Memory.
PersistenceRoundTrip == loadMemory(JSONstringify(memory)) = memory

\* the page was loaded again over a Memory with a partial query, a
\* chosen persona and the hotel flag, and Memory is as it was saved
RoundTripSeen ==
    /\ last.op = "reload"
    /\ turns = 2
    /\ memory.persona = "Rich"
    /\ memory.lastQuery.present
    /\ memory.lastQuery.to = "LAX"
    /\ memory.lastQuery.from = Undef
    /\ memory.hotelRequired = "true"
    /\ storage = JSONstringify(memory)

\* C11: when the store held nothing, or text that is not JSON, or JSON
\* that is no object, the Memory the component mounts with is exactly the
\* default {persona: Business}.
MalformedLoadsDefault ==
    (last.op = "mount"
       /\ last.id \in {"none", "empty", "garbage", "null", "number", "string"})
    => memory = DefaultMemory

\* C12: Memory.persona is Rich or Business in every state, whatever the
\* store held at the start.
PersonaAlwaysValid == memory.persona \in Personas

\* C13: the stored item is the serialization of the current Memory after
\* every step, so also once no further mutation occurs.
StoredIsCurrent == storage = JSONstringify(memory)

\* a selection changed Memory and the stored item holds the chosen flight
StoredSeen ==
    /\ last.op = "selectFlight"
    /\ memory.chosenFlightId = "F1"
    /\ \E i \in 1..Len(storage.body) : storage.body[i] = <<"chosenFlightId", "F1">>
    /\ \E i \in 1..Len(storage.body) : storage.body[i] = <<"from", "NYC">>

\* C14: when a flight (hotel) search fails, the flight (hotel) list becomes
\* empty and the handler that awaited it goes on: after a failed flight
\* search of a submit the acknowledgment is appended.
FailedSearchEmptiesList ==
    [][last'.op = "searchFails" =>
          /\ last'.id = "flights" => flights' = <<>>
          /\ last'.id = "hotels" => hotels' = <<>>
          /\ (last'.id = "flights" /\ last'.q # <<>>) =>
                messages' = Append(messages, Agent("found", Undef))]_vars

\* the step is a submit that called searchFlights
IssuedFlightSearch ==
    /\ last'.op = "handleSubmit"
    /\ Len(tasks') = Len(tasks) + 1
    /\ tasks'[Len(tasks')].phase = "flights"

\* the step is part of an utterance turn and called searchHotels
IssuedHotelSearch ==
    /\ Len(tasks') > 0
    /\ tasks'[Len(tasks')].phase = "hotels"
    /\ tasks'[Len(tasks')].kind = "submit"
    /\ \/ last'.op = "handleSubmit" /\ Len(tasks') = Len(tasks) + 1
       \/ last'.op = "flightsArrive" /\ Len(tasks') = Len(tasks)

\* the step is the one of an utterance turn that decides about the hotel:
\* the submit itself when it searches no flights, else the arrival of the
\* turn's flights
DecidesHotel ==
    \/ last'.op = "flightsArrive" /\ last'.id = "submit"
    \/ last'.op = "handleSubmit" /\ last'.q # <<>> /\ ~IssuedFlightSearch

\* the top-ranked flight of the most recent flight-search result is overnight
TopOvernight == Len(flights') > 0 /\ flights'[1].overnight

\* C15: an utterance turn treats a hotel as required exactly when the
\* utterance mentions a hotel word or the top-ranked flight of the most
\* recent result, this turn's included, is overnight: it searches hotels
\* only then, and then whenever a destination is known.
HotelRequiredIffTopOvernight ==
    [][DecidesHotel =>
          LET required == MentionsHotel(last'.q) \/ TopOvernight
              resolvable == ExtractTo(last'.q) # Undef \/ Len(flights') > 0
          IN /\ IssuedHotelSearch => required
             /\ (required /\ resolvable) => IssuedHotelSearch]_vars

\* C16: the city of a hotel search of an utterance turn is the utterance's
\* destination when it has one, else the destination of the top-ranked
\* flight of the most recent flight search.
HotelCityResolution ==
    [][(DecidesHotel /\ IssuedHotelSearch) =>
          tasks'[Len(tasks')].city =
             (IF ExtractTo(last'.q) # Undef THEN ExtractTo(last'.q)
              ELSE IF Len(flights') > 0 THEN flights'[1].to ELSE "")]_vars

\* C17: when a hotel is required and neither the utterance has a
\* destination nor the most recent flight search a top-ranked flight, the
\* turn searches no hotels and leaves the hotel list alone.
UnresolvableMeansNoSearch ==
    [][(DecidesHotel /\ (MentionsHotel(last'.q) \/ TopOvernight)
          /\ ExtractTo(last'.q) = Undef /\ Len(flights') = 0) =>
          /\ ~IssuedHotelSearch
          /\ hotels' = hotels
          /\ \A i \in 1..Len(messages') :
                i > Len(messages) => messages'[i].kind # "hotelRequired"]_vars

\* lastQuery as a request: its sub-fields, the absent ones omitted
AsRequest(lq) == [from |-> lq.from, to |-> lq.to, date |-> lq.date]

\* C18: a submit searches flights exactly when it extracted a from, to or
\* date or no flights are held, and with the merged lastQuery as request;
\* when the response is taken the ranked result replaces the flight list
\* and one acknowledgment is appended.
FlightSearchWhenNeeded ==
    [][/\ (last'.op = "handleSubmit" /\ last'.q # <<>>) =>
             /\ IssuedFlightSearch <=>
                   (\/ ExtractFrom(last'.q) # Undef
                    \/ ExtractTo(last'.q) # Undef
                    \/ ExtractDate(last'.q) # Undef
                    \/ Len(flights) = 0)
             /\ IssuedFlightSearch =>
                   tasks'[Len(tasks')].params = AsRequest(memory'.lastQuery)
       /\ (last'.op = "flightsArrive" /\ last'.id = "submit") =>
             /\ \E i \in 1..Len(tasks) :
                   /\ tasks[i].phase = "flights"
                   /\ tasks[i].kind = "submit"
                   /\ tasks[i].q = last'.q
                   /\ flights' = sortFlights(GETflights(AsRequest(tasks[i].lq)),
                                             tasks[i].persona)
             /\ messages' = Append(messages, Agent("found", Undef))]_vars

\* the full query was searched with all three fields and its three
\* flights, ranked for Business, replaced the list
FlightSearchSeen ==
    /\ last.op = "flightsArrive"
    /\ last.id = "submit"
    /\ last.q = <<"flights", "from", "NYC", "to", "LAX", "on", "2025-11-10">>
    /\ last.persona = "Business"
    /\ latest.params = [from |-> "NYC", to |-> "LAX", date |-> "2025-11-10"]
    /\ Len(flights) = 3
    /\ flights[1].id = "F2"
    /\ messages[Len(messages)] = Agent("found", Undef)

\* C19: a user event that starts a turn (a blank submit starts none) is
\* accepted only when no search is pending, and no handler returns with a
\* search of its own pending.
TurnsExclusive ==
    [][/\ (turns' # turns /\ ~(last'.op = "handleSubmit" /\ last'.q = <<>>))
             => tasks = <<>>
       /\ \A i \in 1..Len(tasks') : tasks'[i].kind # "select"]_vars

\* C20: when no flight search is pending and the response of the one
\* issued last has been taken, the flight list is that response, ranked.
LatestSearchWins ==
    ((\A i \in 1..Len(tasks) : tasks[i].phase # "flights") /\ latest.arrived)
    => flights = sortFlights(GETflights(latest.params), latest.persona)

====
